---- MODULE Spec2Model ----
(***************************************************************************)
(* State-machine model of smart-run-coach: the credential loader           *)
(* (training_analysis.get_credentials), the OAuth handshake                *)
(* (strava_api.get_access_token with OAuthHandler.do_GET) and the          *)
(* activity aggregator (training_analysis.analyze_training_data on top of  *)
(* StravaAPI.get_activities).  Each function is exercised from the idle    *)
(* state with inputs drawn from small sets.                                *)
(***************************************************************************)
EXTENDS Integers, Sequences, FiniteSets, TLC

\* ------------------------------------------------------------------ bounds

\* Longest activity history the modelled server holds.
MaxActivities == 3

\* Records per page served by the modelled server.  The code asks for 100
\* (per_page=100); the model serves per_page records so that several pages
\* fit in MaxActivities.
per_page == 2

\* Most lines in a modelled credentials file.
MaxLines == 3

\* ------------------------------------------------------------ calendar

\* None for an optional date argument, and a dictionary without 'start_date'.
NoDate == <<0, 0, 0>>
NoField == <<>>

IsLeap(y) == (y % 4 = 0) /\ ((y % 100 # 0) \/ (y % 400 = 0))

DaysBeforeYear(y) ==
    (y - 1) * 365 + ((y - 1) \div 4) - ((y - 1) \div 100) + ((y - 1) \div 400)

DaysInMonth(y, m) ==
    IF m = 2 THEN (IF IsLeap(y) THEN 29 ELSE 28)
    ELSE IF m \in {4, 6, 9, 11} THEN 30 ELSE 31

RECURSIVE DaysBeforeMonth(_, _)
DaysBeforeMonth(y, m) ==
    IF m = 1 THEN 0 ELSE DaysBeforeMonth(y, m - 1) + DaysInMonth(y, m - 1)

\* Proleptic Gregorian ordinal of a date (0001-01-01 is day 1, a Monday).
Ordinal(y, m, d) == DaysBeforeYear(y) + DaysBeforeMonth(y, m) + d

\* Ordinal of the Monday that starts ISO week 1 of year y.
IsoWeek1Monday(y) ==
    LET firstday == Ordinal(y, 1, 1)
        firstweekday == (firstday + 6) % 7
        week1monday == firstday - firstweekday
    IN  IF firstweekday > 3 THEN week1monday + 7 ELSE week1monday

\* ISO (year, week) of a date, as dt.isocalendar() computes it.
IsoCalendar(y, m, d) ==
    LET today == Ordinal(y, m, d)
        w == (today - IsoWeek1Monday(y)) \div 7
    IN  IF today < IsoWeek1Monday(y)
        THEN [year |-> y - 1, week |-> ((today - IsoWeek1Monday(y - 1)) \div 7) + 1]
        ELSE IF w >= 52 /\ today >= IsoWeek1Monday(y + 1)
        THEN [year |-> y + 1, week |-> 1]
        ELSE [year |-> y, week |-> w + 1]

\* A timestamp is <<year, month, day, hour>> in UTC; Instant orders them.
Instant(ts) == Ordinal(ts[1], ts[2], ts[3]) * 24 + ts[4]

\* pd.to_datetime(date).tz_localize(UTC): a date argument is midnight UTC.
to_datetime(date) == <<date[1], date[2], date[3], 0>>

\* ------------------------------------------------------------ rationals

\* Float results are kept exact as a reduced fraction num/den; den = 0 marks
\* the float result of a division by zero (inf when num = 1, NaN when num = 0).
RECURSIVE GCD(_, _)
GCD(a, b) == IF b = 0 THEN a ELSE GCD(b, a % b)

Rat(n, d) ==
    IF d = 0 THEN [num |-> IF n = 0 THEN 0 ELSE 1, den |-> 0]
    ELSE [num |-> n \div GCD(n, d), den |-> d \div GCD(n, d)]
Inf == Rat(1, 0)
NaN == Rat(0, 0)
IsFinite(a) == a.den # 0
RatLess(a, b) ==
    IF IsFinite(a) /\ IsFinite(b) THEN a.num * b.den < b.num * a.den
    ELSE IsFinite(a) /\ b = Inf
RatAdd(a, b) ==
    IF a = NaN \/ b = NaN THEN NaN
    ELSE IF a = Inf \/ b = Inf THEN Inf
    ELSE Rat(a.num * b.den + b.num * a.den, a.den * b.den)
\* Float division of non-negative values: x/0 is inf, 0/0 is NaN.
RatDiv(a, b) ==
    IF a = NaN \/ b = NaN THEN NaN
    ELSE IF a = Inf THEN (IF b = Inf THEN NaN ELSE Inf)
    ELSE IF b = Inf THEN Rat(0, 1)
    ELSE Rat(a.num * b.den, a.den * b.num)

\* ------------------------------------------------------------ activities

\* The analysis window the model calls analyze_training_data with.
StartArg == <<2025, 1, 1>>
EndArg == <<2025, 1, 2>>

\* Activity records the modelled server can hold (without their id): one
\* before the window, one on each boundary, one after the end boundary and
\* one without a 'start_date' key.
Letters ==
    { [start_date |-> <<2024, 12, 31, 12>>, distance |-> 3000, moving_time |-> 0,
       total_elevation_gain |-> 10],
      [start_date |-> <<2025, 1, 1, 0>>, distance |-> 5000, moving_time |-> 1800,
       total_elevation_gain |-> 50],
      [start_date |-> <<2025, 1, 2, 0>>, distance |-> 10000, moving_time |-> 3600,
       total_elevation_gain |-> 120],
      [start_date |-> <<2025, 1, 2, 12>>, distance |-> 0, moving_time |-> 600,
       total_elevation_gain |-> 0],
      [start_date |-> NoField, distance |-> 2000, moving_time |-> 900,
       total_elevation_gain |-> 5] }

Activity(i, l) ==
    [kind |-> "activity", id |-> i, start_date |-> l.start_date, distance |-> l.distance,
     moving_time |-> l.moving_time, total_elevation_gain |-> l.total_elevation_gain]

\* Iterating a Strava fault object {"message": ..., "errors": ...} yields its keys.
PayloadKeys == << [kind |-> "key", name |-> "message"], [kind |-> "key", name |-> "errors"] >>

Histories == UNION { [1..n -> Letters] : n \in 0..MaxActivities }

Min(a, b) == IF a < b THEN a ELSE b

\* ------------------------------------------------------------------ state

VARIABLES
    pc,             \* position of the program: which function runs, and where
    file,           \* get_credentials: the credentials file (NoFile or its lines)
    credentials,    \* get_credentials: the mapping built from the lines
    cred_result,    \* get_credentials: the returned pair, <<>> until it returns
    exit_status,    \* process exit status, -1 while the process runs
    request,        \* the callback request the local listener served
    served,         \* number of inbound requests the listener has served
    auth_code,      \* server.auth_code ("" models None)
    token_posts,    \* token requests sent so far, in order
    token_result,   \* get_access_token's return value
    feed,           \* the activity history held by the remote server
    failAt,         \* first page the server answers with a failure (0: never)
    failKind,       \* "raise" (the call raises) or "payload" (a fault object)
    start_date,     \* analyze_training_data's start_date argument
    end_date,       \* analyze_training_data's end_date argument
    page,           \* next page number to request
    all_activities, \* records accumulated by the fetch loop
    requests,       \* page numbers requested so far, in order
    responses,      \* what each request was answered with
    halt,           \* which break left the fetch loop
    escaped,        \* TRUE when an exception left analyze_training_data
    df,             \* the rows left after the date filter
    weekly_stats,   \* the weekly table (<<>> when None is returned)
    summary,        \* the summary mapping
    result,         \* "pending", "none" for (None, None), "stats"
    files           \* output files written

credVars == <<file, credentials, cred_result, exit_status>>
oauthVars == <<request, served, auth_code, token_posts, token_result>>
serverVars == <<feed, failAt, failKind>>
fetchVars == <<start_date, end_date, page, all_activities, requests, responses, halt, escaped>>
reportVars == <<df, weekly_stats, summary, result, files>>
vars == <<pc, credVars, oauthVars, serverVars, fetchVars, reportVars>>

\* ------------------------------------------------- StravaAPI.get_activities

NumPages(n) == (n + per_page - 1) \div per_page

\* The slice of a history the server returns for a page number.
ServedPage(history, p) ==
    SubSeq(history, (p - 1) * per_page + 1, Min(p * per_page, Len(history)))

\* What a call get_activities(per_page, page=p) produces: a raised exception,
\* the parsed fault object, or the parsed list of activities of that page.
get_activities(p) ==
    IF failAt # 0 /\ p >= failAt
    THEN [kind |-> failKind, items |-> <<>>]
    ELSE [kind |-> "list", items |-> ServedPage(feed, p)]

\* ---------------------------------------------------- the fetch loop

HasStart(a) == a.kind = "activity" /\ a.start_date # NoField

\* Mutant of ReachedStart: the comparison with the boundary made inclusive.
ReachedStart_Inclusive(activities, start) ==
    /\ start # NoDate
    /\ activities # <<>>
    /\ HasStart(activities[Len(activities)])
    /\ Instant(activities[Len(activities)].start_date) <= Instant(to_datetime(start))

\* Lines 63-67: the last record of the page predates the start boundary.
ReachedStart(activities, start) ==
    /\ start # NoDate
    /\ activities # <<>>
    /\ HasStart(activities[Len(activities)])
    /\ Instant(activities[Len(activities)].start_date) < Instant(to_datetime(start))

\* Lines 69-71: the records of the page at or after the start boundary.
filtered_activities(activities, start) ==
    SelectSeq(activities,
              LAMBDA a : HasStart(a) /\ Instant(a.start_date) >= Instant(to_datetime(start)))

\* The model stops issuing requests this far past the last page (the loop
\* itself has no such limit).
PageCap == NumPages(Len(feed)) + 2

\* Line 58-60: an empty page ends the loop.
EmptyBranch(acc, pg) ==
    [all |-> acc, page |-> pg, halt |-> "empty", escaped |-> FALSE]

\* Mutant of EarlyBranch: the records of the earlier pages are filtered too.
EarlyBranch_Refilter(activities, acc, pg, start) ==
    [all |-> filtered_activities(acc \o activities, start), page |-> pg,
     halt |-> "early", escaped |-> FALSE]

\* Lines 68-74: keep the in-range records of this page and stop.
EarlyBranch(activities, acc, pg, start) ==
    [all |-> acc \o filtered_activities(activities, start), page |-> pg,
     halt |-> "early", escaped |-> FALSE]

\* Mutant of ExtendBranch: the page counter advances by two.
ExtendBranch_SkipPage(activities, acc, pg) ==
    [all |-> acc \o activities, page |-> pg + 2, halt |-> "none", escaped |-> FALSE]

\* Lines 76-77: keep the whole page and go on to the next one.
ExtendBranch(activities, acc, pg) ==
    [all |-> acc \o activities, page |-> pg + 1, halt |-> "none", escaped |-> FALSE]

\* Mutant of ExceptBranch: the handler re-raises.
ExceptBranch_Reraise(acc, pg) ==
    [all |-> acc, page |-> pg, halt |-> "error", escaped |-> TRUE]

\* Lines 82-84: any exception raised in the loop body is printed and ends
\* the loop; what was accumulated stays.
ExceptBranch(acc, pg) ==
    [all |-> acc, page |-> pg, halt |-> "error", escaped |-> FALSE]

\* Lines 55-84, one iteration on the response r of get_activities.  A fault
\* object is a non-empty dict: it is truthy, activities[-1] raises KeyError
\* on it (taken only with a start boundary), and extend() appends its keys.
loop_body(r, acc, pg, start) ==
    IF r.kind = "raise" THEN ExceptBranch(acc, pg)
    ELSE IF r.kind = "payload"
    THEN IF start # NoDate THEN ExceptBranch(acc, pg)
         ELSE ExtendBranch(PayloadKeys, acc, pg)
    ELSE IF r.items = <<>> THEN EmptyBranch(acc, pg)
    ELSE IF ReachedStart(r.items, start) THEN EarlyBranch(r.items, acc, pg, start)
    ELSE ExtendBranch(r.items, acc, pg)

\* What the history variable responses records for a response.
Answer(r) == IF r.kind = "list" /\ r.items = <<>> THEN "empty" ELSE r.kind

\* ------------------------------------------------- processing (lines 86-164)

\* pd.DataFrame(all_activities) yields a table with the activity columns only
\* when every element is an activity dict; with fault-object keys among the
\* elements the required columns are missing or the constructor raises, and
\* both paths return (None, None).
IsTable(all) == \A i \in 1..Len(all) : all[i].kind = "activity"

\* Lines 98-102: a column exists when some record has the key (the modelled
\* records always carry id, distance, moving_time and total_elevation_gain).
HasRequiredColumns(all) == \E i \in 1..Len(all) : HasStart(all[i])

\* Mutant of FilterByDate: only the end boundary is applied after fetching.
FilterByDate_EndOnly(rows, start, end) ==
    SelectSeq(rows, LAMBDA a :
        end # NoDate =>
            (a.kind = "activity" /\ a.start_date # NoField
             /\ Instant(a.start_date) <= Instant(to_datetime(end))))

\* Lines 108-111: rows inside [start, end]; a row without a timestamp (NaT)
\* fails every comparison.
FilterByDate(rows, start, end) ==
    SelectSeq(rows, LAMBDA a :
        /\ (start # NoDate =>
                HasStart(a) /\ Instant(a.start_date) >= Instant(to_datetime(start)))
        /\ (end # NoDate =>
                HasStart(a) /\ Instant(a.start_date) <= Instant(to_datetime(end))))

\* Lines 118-120 and 124: the group key is (dt.year, dt.isocalendar().week).
WeekKey(a) ==
    [year |-> a.start_date[1],
     week |-> IsoCalendar(a.start_date[1], a.start_date[2], a.start_date[3]).week]

\* groupby drops the rows whose key is missing (NaT rows).
Group(rows, k) == SelectSeq(rows, LAMBDA a : HasStart(a) /\ WeekKey(a) = k)

WeekKeys(rows) == { WeekKey(rows[i]) : i \in { j \in 1..Len(rows) : HasStart(rows[j]) } }

KeyLess(k1, k2) == k1.year < k2.year \/ (k1.year = k2.year /\ k1.week < k2.week)

\* groupby sorts the groups by key.
RECURSIVE SortKeys(_)
SortKeys(S) ==
    IF S = {} THEN <<>>
    ELSE LET k == CHOOSE x \in S : \A y \in S \ {x} : KeyLess(x, y)
         IN  <<k>> \o SortKeys(S \ {k})

RECURSIVE SumField(_, _)
SumField(rows, f) ==
    IF rows = <<>> THEN 0 ELSE rows[1][f] + SumField(Tail(rows), f)

\* Mutant of WeekRow: seconds are divided by 3600 to give hours.
WeekRow_Hours(rows, k) ==
    LET g == Group(rows, k)
        km == RatDiv(Rat(SumField(g, "distance"), 1), Rat(1000, 1))
        minutes == SumField(g, "moving_time")
        hours == RatDiv(Rat(minutes, 1), Rat(3600, 1))
    IN  [year |-> k.year, week |-> k.week,
         total_distance_km |-> km,
         total_time_minutes |-> minutes,
         total_elevation_meters |-> SumField(g, "total_elevation_gain"),
         number_of_activities |-> Len(g),
         total_time_hours |-> hours,
         average_speed_kmh |-> RatDiv(km, hours)]

\* Lines 124-139: one row of weekly_stats.
WeekRow(rows, k) ==
    LET g == Group(rows, k)
        km == RatDiv(Rat(SumField(g, "distance"), 1), Rat(1000, 1))
        minutes == SumField(g, "moving_time")
        hours == RatDiv(Rat(minutes, 1), Rat(60, 1))
    IN  [year |-> k.year, week |-> k.week,
         total_distance_km |-> km,
         total_time_minutes |-> minutes,
         total_elevation_meters |-> SumField(g, "total_elevation_gain"),
         number_of_activities |-> Len(g),
         total_time_hours |-> hours,
         average_speed_kmh |-> RatDiv(km, hours)]

WeeklyStats(rows) ==
    LET ks == SortKeys(WeekKeys(rows))
    IN  [i \in 1..Len(ks) |-> WeekRow(rows, ks[i])]

RECURSIVE RatSum(_)
RatSum(vs) == IF vs = <<>> THEN Rat(0, 1) ELSE RatAdd(vs[1], RatSum(Tail(vs)))

\* Series.mean() skips NaN.
Mean(vs) ==
    LET xs == SelectSeq(vs, LAMBDA v : v # NaN)
    IN  IF xs = <<>> THEN NaN ELSE RatDiv(RatSum(xs), Rat(Len(xs), 1))

RECURSIVE RatMax(_)
RatMax(vs) ==
    IF Len(vs) = 1 THEN vs[1]
    ELSE LET m == RatMax(Tail(vs)) IN IF RatLess(vs[1], m) THEN m ELSE vs[1]

Column(ws, f) == [i \in 1..Len(ws) |-> ws[i][f]]
IntColumn(ws, f) == [i \in 1..Len(ws) |-> Rat(ws[i][f], 1)]

\* Lines 146-154.
Summary(ws) ==
    [total_weeks |-> Len(ws),
     average_weekly_distance |-> Mean(Column(ws, "total_distance_km")),
     max_weekly_distance |-> RatMax(Column(ws, "total_distance_km")),
     average_weekly_time |-> Mean(Column(ws, "total_time_hours")),
     average_weekly_activities |-> Mean(IntColumn(ws, "number_of_activities")),
     total_elevation |-> SumField(ws, "total_elevation_meters"),
     average_speed |-> Mean(Column(ws, "average_speed_kmh"))]

NoSummary == [total_weeks |-> 0]

None == [df |-> <<>>, weekly_stats |-> <<>>, summary |-> NoSummary, result |-> "none",
         files |-> {}]

\* Lines 86-164 on the accumulated records: (None, None) when nothing was
\* fetched, the table cannot be built, or no row is left after the filter.
process(all, start, end) ==
    IF all = <<>> THEN None
    ELSE IF ~IsTable(all) \/ ~HasRequiredColumns(all) THEN None
    ELSE LET rows == FilterByDate(all, start, end)
         IN  IF rows = <<>> THEN None
             ELSE [df |-> rows,
                   weekly_stats |-> WeeklyStats(rows),
                   summary |-> Summary(WeeklyStats(rows)),
                   result |-> "stats",
                   files |-> {"training_analysis.csv", "training_summary.json"}]

\* ------------------------------------------- get_credentials (lines 10-36)

\* A line of the file is the sequence of its pieces between '=' signs, so
\* that '=' in line is Len(line) > 1 and line.strip().split('=') is the line
\* itself up to the outer whitespace, which the strip() of each piece removes.
Lines ==
    { <<"client_id ", " 153827">>,
      <<"client_secret ", " e555d7">>,
      <<"client_secret ", " e555", "d7">>,
      <<"# strava credentials">>,
      <<"client_id", "99">> }

NoFile == << <<"<no such file>">> >>
Files == { NoFile } \cup UNION { [1..n -> Lines] : n \in 0..MaxLines }

\* str.strip() on the pieces that occur in Lines.
strip(piece) ==
    CASE piece = "client_id " -> "client_id"
      [] piece = "client_secret " -> "client_secret"
      [] piece = " 153827" -> "153827"
      [] piece = " e555d7" -> "e555d7"
      [] piece = " e555" -> "e555"
      [] OTHER -> piece

\* Mutant of KeyOf: the key is stored without strip().
KeyOf_Raw(line) == line[1]

\* Line 21-22, the key a two-piece line is stored under.
KeyOf(line) == strip(line[1])

\* Lines 19-22: the mapping after the lines were read in order, or the
\* ValueError of unpacking a split that has more than two pieces.
RECURSIVE read_lines(_, _)
read_lines(lines, creds) ==
    IF lines = <<>> THEN [error |-> FALSE, credentials |-> creds]
    ELSE IF Len(lines[1]) <= 1 THEN read_lines(Tail(lines), creds)
    ELSE IF Len(lines[1]) # 2 THEN [error |-> TRUE, credentials |-> creds]
    ELSE read_lines(Tail(lines), (KeyOf(lines[1]) :> strip(lines[1][2])) @@ creds)

\* Lines 15-36: the returned pair, or exit(1) from either except clause.
get_credentials(f) ==
    IF f = NoFile THEN [credentials |-> <<>>, result |-> <<>>, exit |-> 1]
    ELSE LET r == read_lines(f, <<>>)
             c == r.credentials
         IN  IF r.error \/ "client_id" \notin DOMAIN c \/ "client_secret" \notin DOMAIN c
             THEN [credentials |-> c, result |-> <<>>, exit |-> 1]
             ELSE [credentials |-> c, result |-> <<c["client_id"], c["client_secret"]>>,
                   exit |-> -1]

\* ------------------------------------- get_access_token (strava_api 40-80)

Param(n, v) == [name |-> n, value |-> v]

\* Callback requests the local listener may receive.
Requests ==
    { [method |-> "GET", query |-> <<Param("state", ""), Param("code", "c1"), Param("scope", "read")>>],
      [method |-> "GET", query |-> <<Param("code", "c1"), Param("code", "c2")>>],
      [method |-> "GET", query |-> <<Param("code", "")>>],
      [method |-> "GET", query |-> <<Param("error", "access_denied")>>],
      [method |-> "GET", query |-> <<>>],
      [method |-> "POST", query |-> <<Param("code", "c1")>>] }

\* urllib.parse.parse_qs with its defaults: the values of each name in order,
\* blank values dropped.
parse_qs(query) ==
    LET kept == SelectSeq(query, LAMBDA q : q.value # "")
        names == { kept[i].name : i \in 1..Len(kept) }
        ValuesOf(n) ==
            LET qs == SelectSeq(kept, LAMBDA q : q.name = n)
            IN  [i \in 1..Len(qs) |-> qs[i].value]
    IN  [n \in names |-> ValuesOf(n)]

\* Mutant of do_GET: the last value of code is taken instead of the first.
do_GET_LastCode(req, code) ==
    LET params == parse_qs(req.query)
    IN  IF "code" \in DOMAIN params THEN params["code"][Len(params["code"])] ELSE code

\* OAuthHandler.do_GET (lines 41-55): the new server.auth_code.
do_GET(req, code) ==
    LET params == parse_qs(req.query)
    IN  IF "code" \in DOMAIN params THEN params["code"][1] ELSE code

\* server.handle_request() (line 67): the request is dispatched to do_GET
\* only when its method is GET; any other method is answered 501.
handle_request(req, code) ==
    IF req.method = "GET" THEN do_GET(req, code) ELSE code

\* Line 69: if server.auth_code.
HasAuthCode(code) == code # ""

\* Lines 72-77: the form posted to the token endpoint.
TokenRequest(client_id, client_secret, code) ==
    [client_id |-> client_id, client_secret |-> client_secret, code |-> code,
     grant_type |-> "authorization_code"]

\* ---------------------------------------------------------------- actions

Init ==
    /\ pc = "idle"
    /\ file = NoFile
    /\ credentials = <<>>
    /\ cred_result = <<>>
    /\ exit_status = -1
    /\ request = [method |-> "", query |-> <<>>]
    /\ served = 0
    /\ auth_code = ""
    /\ token_posts = <<>>
    /\ token_result = "pending"
    /\ feed = <<>>
    /\ failAt = 0
    /\ failKind = "raise"
    /\ start_date = NoDate
    /\ end_date = NoDate
    /\ page = 1
    /\ all_activities = <<>>
    /\ requests = <<>>
    /\ responses = <<>>
    /\ halt = "none"
    /\ escaped = FALSE
    /\ df = <<>>
    /\ weekly_stats = <<>>
    /\ summary = NoSummary
    /\ result = "pending"
    /\ files = {}

\* Failure scripts of the server for a history of n records: never, or from
\* some page up to the one after the last on, raising or answering with a
\* fault object.
FailureScripts(n) ==
    { <<0, "raise">> } \cup ((1..(NumPages(n) + 1)) \X {"raise", "payload"})

\* analyze_training_data(strava_api, start_date, end_date) is called
\* (lines 38-51) against a server holding some history.
CallAnalyze ==
    /\ pc = "idle"
    /\ \E h \in Histories, s \in {NoDate, StartArg}, e \in {NoDate, EndArg} :
         \E f \in FailureScripts(Len(h)) :
            /\ feed' = [i \in 1..Len(h) |-> Activity(i, h[i])]
            /\ failAt' = f[1]
            /\ failKind' = f[2]
            /\ start_date' = s
            /\ end_date' = e
    /\ page' = 1
    /\ all_activities' = <<>>
    /\ pc' = "fetch"
    /\ UNCHANGED <<credVars, oauthVars, requests, responses, halt, escaped, reportVars>>

\* One iteration of the while loop (lines 53-84).
FetchPage ==
    /\ pc = "fetch"
    /\ page <= PageCap
    /\ LET r == get_activities(page)
           o == loop_body(r, all_activities, page, start_date)
       IN  /\ requests' = Append(requests, page)
           /\ responses' = Append(responses, Answer(r))
           /\ all_activities' = o.all
           /\ page' = o.page
           /\ halt' = o.halt
           /\ escaped' = o.escaped
           /\ pc' = IF o.escaped THEN "analyze_done"
                    ELSE IF o.halt = "none" THEN "fetch" ELSE "process"
    /\ UNCHANGED <<credVars, oauthVars, serverVars, start_date, end_date, reportVars>>

\* Lines 86-164: build the table, filter, group, write the files, return.
ProcessData ==
    /\ pc = "process"
    /\ LET out == process(all_activities, start_date, end_date)
       IN  /\ df' = out.df
           /\ weekly_stats' = out.weekly_stats
           /\ summary' = out.summary
           /\ result' = out.result
           /\ files' = out.files
    /\ pc' = "analyze_done"
    /\ UNCHANGED <<credVars, oauthVars, serverVars, fetchVars>>

\* get_credentials(file_path) runs to its return or to exit(1).
CallGetCredentials ==
    /\ pc = "idle"
    /\ \E f \in Files :
         LET out == get_credentials(f)
         IN  /\ file' = f
             /\ credentials' = out.credentials
             /\ cred_result' = out.result
             /\ exit_status' = out.exit
    /\ pc' = "cred_done"
    /\ UNCHANGED <<oauthVars, serverVars, fetchVars, reportVars>>

\* get_access_token, lines 59-64: the listener is created with no code and
\* the browser is opened.
StartListener ==
    /\ pc = "idle"
    /\ auth_code' = ""
    /\ pc' = "listening"
    /\ UNCHANGED <<credVars, request, served, token_posts, token_result, serverVars,
                   fetchVars, reportVars>>

\* Line 67: handle_request() serves the one inbound request.
ServeCallback ==
    /\ pc = "listening"
    /\ \E req \in Requests :
         /\ request' = req
         /\ auth_code' = handle_request(req, auth_code)
    /\ served' = served + 1
    /\ pc' = "callback_done"
    /\ UNCHANGED <<credVars, token_posts, token_result, serverVars, fetchVars, reportVars>>

\* Lines 69-80: exchange the code for a token, or return None.  The token
\* endpoint answers with token data or a fault object, or the post raises.
ExchangeCode ==
    /\ pc = "callback_done"
    /\ IF HasAuthCode(auth_code)
       THEN /\ token_posts' = Append(token_posts, TokenRequest("153827", "e555d7", auth_code))
            /\ \E answer \in {"token_data", "fault", "raised"} : token_result' = answer
       ELSE /\ token_posts' = token_posts
            /\ token_result' = "none"
    /\ pc' = "token_done"
    /\ UNCHANGED <<credVars, request, served, auth_code, serverVars, fetchVars, reportVars>>

Next ==
    \/ CallGetCredentials
    \/ StartListener
    \/ ServeCallback
    \/ ExchangeCode
    \/ CallAnalyze
    \/ FetchPage
    \/ ProcessData

Spec == Init /\ [][Next]_vars

\* ------------------------------------------------- vocabulary of the claims

\* ceil(n / d) by its definition.
Ceil(n, d) == CHOOSE k \in 0..n : k * d >= n /\ (k - 1) * d < n

\* The loop has been left.
LoopEnded == pc \in {"process", "analyze_done"}

InOrder(rs) == \A i \in 1..Len(rs) : rs[i] = i

NonEmptyPages == Cardinality({ i \in 1..Len(responses) : responses[i] = "list" })

\* The record carries a timestamp that lies in the closed window.
Stamp(a) == Instant(a.start_date)
WindowStart == Ordinal(StartArg[1], StartArg[2], StartArg[3]) * 24
WindowEnd == Ordinal(EndArg[1], EndArg[2], EndArg[3]) * 24
Stamped(a) == "start_date" \in DOMAIN a /\ a.start_date # NoField
AtOrAfterStart(a) == Stamped(a) /\ Stamp(a) >= WindowStart
InWindow(a) == Stamped(a) /\ Stamp(a) >= WindowStart /\ Stamp(a) <= WindowEnd

Count(seq, Test(_)) == Cardinality({ i \in 1..Len(seq) : Test(seq[i]) })

\* C1 as stated: whenever the server serves its history in pages without
\* failing, the loop ends having fetched ceil(total / page_size) non-empty
\* pages, requested as 1, 2, 3, ..., and it ends on an empty page.
C1_Original ==
    (LoopEnded /\ failAt = 0) =>
        /\ NonEmptyPages = Ceil(Len(feed), per_page)
        /\ InOrder(requests)
        /\ halt = "empty"

\* C1 amended: pages are always requested as 1, 2, 3, ... in order; and when
\* no start_date is given and no call fails, the loop fetches exactly
\* ceil(total / page_size) non-empty pages followed by one empty page, on
\* which it halts.
C1_Pagination ==
    /\ InOrder(requests)
    /\ (LoopEnded /\ failAt = 0 /\ start_date = NoDate) =>
            /\ NonEmptyPages = Ceil(Len(feed), per_page)
            /\ Len(requests) = Ceil(Len(feed), per_page) + 1
            /\ responses[Len(responses)] = "empty"
            /\ \A i \in 1..(Len(responses) - 1) : responses[i] = "list"
            /\ halt = "empty"

C1_Witness ==
    /\ pc = "analyze_done" /\ failAt = 0 /\ start_date = NoDate
    /\ Len(feed) = per_page + 1
    /\ requests = <<1, 2, 3>>
    /\ halt = "empty"

\* C2: with both boundaries given, every row that reaches the weekly table
\* lies in [start_date, end_date], and each bucket counts exactly the
\* accumulated records of its key that lie in the window.
C2_InWindow ==
    (result = "stats" /\ start_date # NoDate /\ end_date # NoDate) =>
        /\ \A i \in 1..Len(df) : InWindow(df[i])
        /\ \A j \in 1..Len(weekly_stats) :
              /\ weekly_stats[j].number_of_activities > 0
              /\ weekly_stats[j].number_of_activities =
                    Count(all_activities,
                          LAMBDA a : InWindow(a)
                                     /\ a.start_date[1] = weekly_stats[j].year
                                     /\ WeekKey(a).week = weekly_stats[j].week)

\* An early stop on the second page, an out-of-window record kept from the
\* first page, and a table returned.
C2_Witness ==
    /\ result = "stats" /\ start_date # NoDate /\ end_date # NoDate
    /\ halt = "early" /\ Len(requests) = 2
    /\ \E i \in 1..Len(all_activities) : ~InWindow(all_activities[i])

IsoKey(a) == IsoCalendar(a.start_date[1], a.start_date[2], a.start_date[3])

\* C3 as stated: every bucket is keyed by an ISO (year, week) and counts the
\* filtered activities of that ISO week, and there are as many buckets as
\* ISO weeks among the filtered activities.
C3_IsoBuckets ==
    result = "stats" =>
        /\ \A j \in 1..Len(weekly_stats) :
              weekly_stats[j].number_of_activities =
                  Count(df, LAMBDA a : Stamped(a)
                                       /\ IsoKey(a).year = weekly_stats[j].year
                                       /\ IsoKey(a).week = weekly_stats[j].week)
        /\ Len(weekly_stats) =
              Cardinality({ IsoKey(df[i]) : i \in { k \in 1..Len(df) : Stamped(df[k]) } })

\* The filtered rows that the code put in the bucket of weekly row w.
BucketRows(w) ==
    SelectSeq(df, LAMBDA a : Stamped(a) /\ a.start_date[1] = w.year
                             /\ WeekKey(a).week = w.week)

\* Sum of a field over a sequence of records, by index set.
RECURSIVE Total(_, _, _)
Total(rows, f, n) == IF n = 0 THEN 0 ELSE rows[n][f] + Total(rows, f, n - 1)

\* C4: for every bucket with non-zero total moving time, distance in km is
\* the sum of metres / 1000, time in hours is the sum of seconds / 60,
\* elevation is the sum of gains and the average speed is km / hours; three
\* activities of 5000, 10000, 0 m and 1800, 3600, 600 s in one bucket give
\* total_distance_km = 15 and number_of_activities = 3.
C4_Aggregates ==
    result = "stats" =>
        \A j \in 1..Len(weekly_stats) :
            LET w == weekly_stats[j]
                rows == BucketRows(w)
                metres == Total(rows, "distance", Len(rows))
                seconds == Total(rows, "moving_time", Len(rows))
                gain == Total(rows, "total_elevation_gain", Len(rows))
            IN  /\ seconds # 0 =>
                      /\ IsFinite(w.total_distance_km)
                      /\ w.total_distance_km.num * 1000 = metres * w.total_distance_km.den
                      /\ IsFinite(w.total_time_hours)
                      /\ w.total_time_hours.num * 60 = seconds * w.total_time_hours.den
                      /\ w.total_elevation_meters = gain
                      /\ IsFinite(w.average_speed_kmh)
                      /\ w.average_speed_kmh.num * (seconds * 1000)
                            = (metres * 60) * w.average_speed_kmh.den
                /\ ( /\ Len(rows) = 3
                     /\ { <<rows[i].distance, rows[i].moving_time>> : i \in 1..3 }
                            = { <<5000, 1800>>, <<10000, 3600>>, <<0, 600>> } ) =>
                      /\ w.total_distance_km = [num |-> 15, den |-> 1]
                      /\ w.number_of_activities = 3

\* The three activities of the example in one bucket, aggregated.
C4_Witness ==
    /\ result = "stats"
    /\ \E j \in 1..Len(weekly_stats) :
          /\ Len(BucketRows(weekly_stats[j])) = 3
          /\ { BucketRows(weekly_stats[j])[i].distance : i \in 1..3 } = {5000, 10000, 0}
          /\ weekly_stats[j].total_time_minutes = 6000
          /\ weekly_stats[j].average_speed_kmh = [num |-> 3, den |-> 20]

\* The records of the pages before page p, as served.
PagesBefore(p) == SubSeq(feed, 1, Min((p - 1) * per_page, Len(feed)))

LastResponse == IF responses = <<>> THEN "" ELSE responses[Len(responses)]

\* C5: no exception leaves analyze_training_data; when get_activities raises,
\* the loop ends there, no further page is requested, the records of the
\* pages fetched before are kept and are what the run aggregates, and a
\* failure on the first page gives (None, None).
C5_FetchError ==
    /\ ~escaped
    /\ LastResponse = "raise" =>
          /\ halt = "error"
          /\ pc # "fetch"
          /\ requests = [i \in 1..failAt |-> i]
          /\ all_activities = PagesBefore(failAt)
          /\ pc = "analyze_done" =>
                /\ result # "pending"
                /\ failAt = 1 => result = "none"
                /\ result = "stats" =>
                      /\ df = FilterByDate(PagesBefore(failAt), start_date, end_date)
                      /\ weekly_stats = WeeklyStats(df)

\* A failure on the second page with the first page aggregated.
C5_Witness ==
    /\ pc = "analyze_done" /\ LastResponse = "raise" /\ failAt = 2
    /\ result = "stats" /\ Len(df) = per_page

\* The records of a page at or after the start boundary.
RECURSIVE KeepFromStart(_)
KeepFromStart(rows) ==
    IF rows = <<>> THEN <<>>
    ELSE IF AtOrAfterStart(rows[1]) THEN <<rows[1]>> \o KeepFromStart(Tail(rows))
    ELSE KeepFromStart(Tail(rows))

\* The served page i is non-empty and its last record predates the start.
LastPredatesStart(i) ==
    LET pg == ServedPage(feed, i)
    IN  pg # <<>> /\ Stamped(pg[Len(pg)]) /\ Stamp(pg[Len(pg)]) < WindowStart

\* C8: with a start boundary, a fetched non-empty page whose last record
\* predates the boundary is the last page requested; only its records at or
\* after the boundary are appended, after the records of the earlier pages
\* exactly as they were served.
C8_EarlyStop ==
    \A i \in 1..Len(requests) :
        (start_date # NoDate /\ responses[i] = "list" /\ LastPredatesStart(requests[i])) =>
            /\ halt = "early"
            /\ pc # "fetch"
            /\ i = Len(requests)
            /\ all_activities = PagesBefore(i) \o KeepFromStart(ServedPage(feed, i))

\* An early stop on the second page that keeps an earlier page with a record
\* from before the boundary.
C8_Witness ==
    /\ halt = "early" /\ Len(requests) = 2
    /\ Len(all_activities) = per_page
    /\ \E i \in 1..Len(all_activities) : ~AtOrAfterStart(all_activities[i])

\* Newest first, every record with a timestamp.
ReverseChronological(h) ==
    /\ \A i \in 1..Len(h) : Stamped(h[i])
    /\ \A i \in 1..(Len(h) - 1) : Stamp(h[i]) >= Stamp(h[i + 1])

RECURSIVE KeepInWindow(_)
KeepInWindow(rows) ==
    IF rows = <<>> THEN <<>>
    ELSE IF InWindow(rows[1]) THEN <<rows[1]>> \o KeepInWindow(Tail(rows))
    ELSE KeepInWindow(Tail(rows))

\* C9: on a newest-first feed with no failing call and both boundaries given,
\* the rows aggregated are exactly the records of the whole history that lie
\* in the window (and (None, None) is returned when there are none).
C9_EarlyStopLosesNothing ==
    ( /\ pc = "analyze_done" /\ failAt = 0
      /\ start_date # NoDate /\ end_date # NoDate
      /\ ReverseChronological(feed) ) =>
        /\ df = KeepInWindow(feed)
        /\ (result = "none") = (KeepInWindow(feed) = <<>>)
        /\ result = "stats" => weekly_stats = WeeklyStats(KeepInWindow(feed))

\* An early stop that left a page of the history unrequested.
C9_Witness ==
    /\ pc = "analyze_done" /\ failAt = 0 /\ result = "stats"
    /\ start_date # NoDate /\ end_date # NoDate
    /\ ReverseChronological(feed)
    /\ halt = "early"
    /\ Len(requests) < Ceil(Len(feed), per_page)

\* C10 as stated, in the form a finite run refutes: a fault object (a mapping
\* instead of a list) ends the loop instead of being looped on, so no
\* request follows the one it answered.
C10_FaultEndsLoop ==
    \A i \in 1..(Len(responses) - 1) : responses[i] # "payload"

\* The callback carried a query parameter named code.
CarriedCode(req) == \E i \in 1..Len(req.query) : req.query[i].name = "code"

\* The first non-blank value of the parameter code.
FirstCode(req) ==
    LET idx == { i \in 1..Len(req.query) :
                    req.query[i].name = "code" /\ req.query[i].value # "" }
    IN  IF idx = {} THEN ""
        ELSE req.query[CHOOSE i \in idx : \A j \in idx : i <= j].value

\* C6 as stated: one callback is served, and the token request is sent if
\* and only if that request carried a code query parameter.
C6_Original ==
    pc = "token_done" =>
        /\ served = 1
        /\ (token_posts # <<>>) = CarriedCode(request)

\* C6 amended: exactly one callback is served; the token request (grant type
\* authorization_code, carrying the received code) is sent if and only if
\* that request was a GET carrying a code parameter with a non-blank value;
\* otherwise None is returned and nothing is sent; and nothing is sent
\* before the callback has been served.
C6_Handshake ==
    /\ token_posts # <<>> => served = 1
    /\ pc = "token_done" =>
          /\ served = 1
          /\ (token_posts # <<>>) = (request.method = "GET" /\ FirstCode(request) # "")
          /\ token_posts # <<>> =>
                /\ Len(token_posts) = 1
                /\ token_posts[1].grant_type = "authorization_code"
                /\ token_posts[1].code = FirstCode(request)
          /\ token_posts = <<>> => token_result = "none"

\* A callback with two code values was exchanged.
C6_Witness ==
    /\ pc = "token_done"
    /\ Len(token_posts) = 1
    /\ token_posts[1].code = "c1"
    /\ request.query[Len(request.query)].value = "c2"

\* The file has a line key=value (one '=' or more) whose key is k.
HasKeyLine(f, k) == \E i \in 1..Len(f) : Len(f[i]) >= 2 /\ strip(f[i][1]) = k

\* Some line of the file holds more than one '='.
HasExtraEquals(f) == \E i \in 1..Len(f) : Len(f[i]) > 2

\* The stripped value of the last line key = value of the file.
LastValue(f, k) ==
    LET idx == { i \in 1..Len(f) : Len(f[i]) = 2 /\ strip(f[i][1]) = k }
    IN  strip(f[CHOOSE i \in idx : \A j \in idx : j <= i][2])

\* C7 as stated: the pair is returned whenever the file exists and has both
\* key lines, whatever the value text, and the process exits with status 1
\* if and only if the file does not exist or one of the keys is absent.
C7_Original ==
    pc = "cred_done" =>
        LET both == file # NoFile /\ HasKeyLine(file, "client_id")
                    /\ HasKeyLine(file, "client_secret")
        IN  /\ both => Len(cred_result) = 2 /\ exit_status # 1
            /\ (exit_status = 1) = ~both

\* C7 amended: the pair (the values of the last client_id and client_secret
\* lines) is returned whenever the file exists, no line holds more than one
\* '=' and both keys are present; the process exits with status 1 if and
\* only if the file does not exist, some line holds more than one '=', or
\* one of the two keys is absent.
C7_Credentials ==
    pc = "cred_done" =>
        LET good == /\ file # NoFile
                    /\ ~HasExtraEquals(file)
                    /\ HasKeyLine(file, "client_id")
                    /\ HasKeyLine(file, "client_secret")
        IN  /\ good => /\ exit_status = -1
                       /\ cred_result = <<LastValue(file, "client_id"),
                                          LastValue(file, "client_secret")>>
            /\ (exit_status = 1) = ~good
            /\ exit_status = 1 => cred_result = <<>>

\* Both keys read from padded lines, the later client_id line winning.
C7_Witness ==
    /\ pc = "cred_done" /\ exit_status = -1
    /\ cred_result = <<"99", "e555d7">>
    /\ Len(file) = 3

====
